---------------------------- MODULE Spec2Model ----------------------------
(***************************************************************************)
(* A model of the log viewer: the Model struct of log_model.rs, its        *)
(* update dispatcher, the window computation get_filtered_logs, the key    *)
(* mapping handle_key of log_view.rs and the event loop run of lib.rs.     *)
(*                                                                         *)
(* A log line is a sequence of one-character strings.  A Rust String that  *)
(* is edited (search_input) is a sequence of bytes; the byte <<c, i>> is   *)
(* the i-th byte of the UTF-8 encoding of the character c, so that char    *)
(* boundaries, byte indices and character counts are all computed the way  *)
(* the code computes them.                                                 *)
(*                                                                         *)
(* The log is one text that is written line by line (LogLine(i) is its     *)
(* i-th line), so the file and the line store read from it always hold the *)
(* first n lines of it, for some n.  Such a sequence of lines is held in   *)
(* the state as n; lines(n) is the sequence itself and len(n) its length.  *)
(***************************************************************************)
EXTENDS Integers, Sequences, FiniteSets, TLC

VARIABLES
    model,   \* the Model struct (log_model.rs:34-45)
    file,    \* the log file at log_path: [ok |-> readable, text |-> its lines]
    pc,      \* position of run's loop: "draw", "event", "done" or "panic"
    shown,   \* history: what the last terminal.draw computed
    last     \* history: the last event handled and the state it found

vars == <<model, file, pc, shown, last>>

(***************************** bounds **************************************)
MaxLines == 4      \* longest file of the small specifications
MaxHeight == 2     \* largest number of rows of the log area
MaxQuery == 2      \* longest search query that is typed, in characters

\* The offset that the completing 'g' stores (0xffff).
TopSentinel == 65535

(***************************** log lines ***********************************)
\* The character e-acute (U+00E9), two bytes in UTF-8.
EAcute == "e-acute"

LineInfo == <<EAcute, "I", "N", "F", "O">>
LineAccent == <<EAcute, " ", "I", "N", "F", "O">>
LineError == <<"i", "n", "f", "o", "E", "R", "R", "O", "R">>

\* The log that is written: its i-th line.
LogLine(i) == <<LineInfo, LineAccent, LineInfo, LineError>>[((i - 1) % 4) + 1]

\* The first n lines of the log: the Vec<String> that n stands for.
lines(n) == [i \in 1..n |-> LogLine(i)]

\* Vec::len
len(n) == n

\* The files the viewer is started on in the small specifications.
InitFiles == 0..MaxLines

\* A file longer than the jump-to-top offset plus any window height.
BigFile == TopSentinel + MaxHeight + 2

Heights == 0..MaxHeight

Min(a, b) == IF a < b THEN a ELSE b
Max(a, b) == IF a > b THEN a ELSE b

(***************************** Rust helpers ********************************)
\* usize::checked_sub(a, b).unwrap_or(d)
checked_sub_or(a, b, d) == IF a >= b THEN a - b ELSE d

\* usize::saturating_sub(a, 1)
saturating_sub1(a) == IF a >= 1 THEN a - 1 ELSE 0

\* str::contains(pat) on a line: pat occurs as a contiguous run.
contains(line, pat) ==
    \/ pat = <<>>
    \/ \E i \in 0..(Len(line) - Len(pat)) : SubSeq(line, i + 1, i + Len(pat)) = pat

(***************************** strings *************************************)
\* Number of bytes of the UTF-8 encoding of a character.
Utf8Len(c) == IF c = EAcute THEN 2 ELSE 1

\* The bytes of one character.
Utf8(c) == [i \in 1..Utf8Len(c) |-> <<c, i>>]

\* String::chars(): one character per leading byte.
chars(s) ==
    LET lead == SelectSeq(s, LAMBDA b : b[2] = 1)
    IN [i \in 1..Len(lead) |-> lead[i][1]]

\* String::from_iter over characters (collect).
RECURSIVE collect(_)
collect(cs) == IF cs = <<>> THEN <<>> ELSE Utf8(Head(cs)) \o collect(Tail(cs))

\* str::is_char_boundary(idx)
is_char_boundary(s, idx) ==
    \/ idx = 0
    \/ idx = Len(s)
    \/ idx < Len(s) /\ s[idx + 1][2] = 1

\* The byte offsets (0-based) that char_indices yields, in order.
char_indices(s) ==
    LET P == {i \in 0..(Len(s) - 1) : s[i + 1][2] = 1}
        Rank(i) == Cardinality({j \in P : j < i}) + 1
    IN [k \in 1..Cardinality(P) |-> CHOOSE i \in P : Rank(i) = k]

\* A faulty variant of byte_index: the character index is used as the byte
\* offset.
byte_index_of_bytes(m) == Min(m.cursor_pos, Len(m.search_input))

\* Model::byte_index
byte_index(m) ==
    LET idx == char_indices(m.search_input)
    IN IF m.cursor_pos + 1 <= Len(idx) THEN idx[m.cursor_pos + 1] ELSE Len(m.search_input)

\* A faulty variant of clamp_cursor: the length is counted in bytes.
clamp_cursor_bytes(m, new_cursor_pos) ==
    Max(0, Min(new_cursor_pos, Len(m.search_input)))

\* Model::clamp_cursor
clamp_cursor(m, new_cursor_pos) ==
    Max(0, Min(new_cursor_pos, Len(chars(m.search_input))))

\* Model::reset_cursor
reset_cursor(m) == [m EXCEPT !.cursor_pos = 0]

(***************************** file ****************************************)
\* A faulty variant of read_lines: the text is returned though the read failed.
read_lines_unchecked(f) == f.text

\* fs::read_to_string(..).unwrap_or(String::new()).lines().collect()
read_lines(f) == IF f.ok THEN f.text ELSE 0

\* A faulty variant of refresh_with: the compensation is applied at offset 0 too.
refresh_with_always(m, logs) ==
    LET off == IF len(logs) > len(m.logs)
               THEN m.view_offset + (len(logs) - len(m.logs))
               ELSE m.view_offset
    IN [m EXCEPT !.view_offset = off, !.logs = logs]

\* Model::refresh_logs with the lines just read.
refresh_with(m, logs) ==
    LET off == IF len(logs) > len(m.logs) /\ m.view_offset # 0
               THEN m.view_offset + (len(logs) - len(m.logs))
               ELSE m.view_offset
    IN [m EXCEPT !.view_offset = off, !.logs = logs]

\* Model::refresh_logs
refresh_logs(m, f) == refresh_with(m, read_lines(f))

\* Model::new
new_model(f) ==
    refresh_logs([view_offset |-> 0,
                  view_height |-> 0,
                  g_modifier |-> FALSE,
                  search_mode |-> "None",
                  search_input |-> <<>>,
                  cursor_pos |-> 0,
                  log_filter |-> "NONE",
                  running |-> "Running",
                  logs |-> 0], f)

\* Model::set_view_height
set_view_height(m, height) == [m EXCEPT !.view_height = height]


(***************************** messages ************************************)
\* A Message (log_message.rs); arg is the payload of AddChar and ApplyFilter.
Msg(t) == [type |-> t, arg |-> ""]
MsgArg(t, a) == [type |-> t, arg |-> a]

\* Option::None, where an Option<Message> is expected.
NoMsg == Msg("None")

(***************************** search input ********************************)
\* String::insert(idx, ch): the bytes of ch placed at byte offset idx.
insert(s, idx, c) == SubSeq(s, 1, idx) \o Utf8(c) \o SubSeq(s, idx + 1, Len(s))

move_cursor_left(m) ==
    [m EXCEPT !.cursor_pos = clamp_cursor(m, saturating_sub1(m.cursor_pos))]

move_cursor_right(m) ==
    [m EXCEPT !.cursor_pos = clamp_cursor(m, m.cursor_pos + 1)]

enter_char(m, new_char) ==
    move_cursor_right(
        [m EXCEPT !.search_input = insert(m.search_input, byte_index(m), new_char)])

\* String::insert panics when the index is not on a char boundary.
enter_char_panics(m) == ~is_char_boundary(m.search_input, byte_index(m))

delete_char(m) ==
    IF m.cursor_pos # 0
    THEN LET cs == chars(m.search_input)
             before_char_to_delete == SubSeq(cs, 1, Min(m.cursor_pos - 1, Len(cs)))
             after_char_to_delete == SubSeq(cs, m.cursor_pos + 1, Len(cs))
         IN move_cursor_left(
                [m EXCEPT !.search_input =
                              collect(before_char_to_delete \o after_char_to_delete)])
    ELSE m

\* A faulty variant of reset_search: the cursor is not reset.
reset_search_keep_cursor(m) ==
    [m EXCEPT !.search_input = <<>>, !.search_mode = "None"]

reset_search(m) ==
    [reset_cursor([m EXCEPT !.search_input = <<>>]) EXCEPT !.search_mode = "None"]

(***************************** update **************************************)
\* The match of update (log_model.rs:166-197).  MoveUpPage and MoveDownPage
\* are messages of log_message.rs for which the match has no arm: they change
\* nothing here.
dispatch(m, msg) ==
    CASE msg.type = "MoveUp" -> [m EXCEPT !.view_offset = m.view_offset + 1]
      [] msg.type = "MoveDown" ->
            IF m.view_offset > 0 THEN [m EXCEPT !.view_offset = m.view_offset - 1] ELSE m
      [] msg.type = "ApplyFilter" -> [m EXCEPT !.log_filter = msg.arg, !.view_offset = 0]
      [] msg.type = "Quit" -> [m EXCEPT !.running = "Done"]
      [] msg.type = "ToggleSearch" ->
            IF m.search_mode = "Search" THEN reset_search(m)
            ELSE [m EXCEPT !.search_mode = "Search"]
      [] msg.type = "AddChar" -> enter_char(m, msg.arg)
      [] msg.type = "Delete" -> delete_char(m)
      [] msg.type = "MoveCursorLeft" -> move_cursor_left(m)
      [] msg.type = "MoveCursorRight" -> move_cursor_right(m)
      [] msg.type = "MoveTop" -> [m EXCEPT !.g_modifier = TRUE]
      [] msg.type = "MoveBottom" -> [m EXCEPT !.view_offset = 0]
      [] OTHER -> m

\* The modifier block of update (log_model.rs:156-164): TRUE when the
\* message completes the two-key sequence and update returns early.
completes_jump(m, msg) == m.g_modifier /\ msg.type = "MoveTop"

\* update, for every message but RefreshLogs (which reads the file).
update(m, msg) ==
    IF completes_jump(m, msg)
    THEN [m EXCEPT !.view_offset = TopSentinel]
    ELSE dispatch(IF m.g_modifier THEN [m EXCEPT !.g_modifier = FALSE] ELSE m, msg)

\* update on Message::RefreshLogs (log_model.rs:194).
update_refresh(m, f) ==
    refresh_logs(IF m.g_modifier THEN [m EXCEPT !.g_modifier = FALSE] ELSE m, f)

update_panics(m, msg) ==
    /\ ~completes_jump(m, msg)
    /\ msg.type = "AddChar"
    /\ enter_char_panics(m)

(***************************** keys ****************************************)
KeyChar(c) == [code |-> "Char", ch |-> c, ctrl |-> FALSE]
KeyCtrl(c) == [code |-> "Char", ch |-> c, ctrl |-> TRUE]
KeyCode(code) == [code |-> code, ch |-> "", ctrl |-> FALSE]

\* A faulty variant of select_key: the category is applied under any filter.
select_key_always(m, f) == MsgArg("ApplyFilter", f)

select_key(m, f) ==
    IF m.log_filter = "SELECT" THEN MsgArg("ApplyFilter", f) ELSE NoMsg

\* handle_key in Search mode (log_view.rs:86-99)
handle_key_search(key) ==
    CASE key.code \in {"Enter", "Esc"} -> Msg("ToggleSearch")
      [] key.code = "Char" /\ key.ch = "c" /\ key.ctrl -> Msg("ToggleSearch")
      [] key.code = "Char" /\ ~(key.ch = "c" /\ key.ctrl) -> MsgArg("AddChar", key.ch)
      [] key.code = "Backspace" -> Msg("Delete")
      [] key.code = "Left" -> Msg("MoveCursorLeft")
      [] key.code = "Right" -> Msg("MoveCursorRight")
      [] OTHER -> NoMsg

\* handle_key in Normal mode (log_view.rs:101-157)
handle_key_normal(m, key) ==
    IF key.code = "Down" THEN Msg("MoveDown")
    ELSE IF key.code = "Up" THEN Msg("MoveUp")
    ELSE IF key.code # "Char" THEN NoMsg
    ELSE CASE key.ch = "j" -> Msg("MoveDown")
           [] key.ch = "k" -> Msg("MoveUp")
           [] key.ch = "q" -> Msg("Quit")
           [] key.ch = "g" -> Msg("MoveTop")
           [] key.ch = "G" -> Msg("MoveBottom")
           [] key.ch \in {"s", "/"} -> Msg("ToggleSearch")
           [] key.ch = "f" ->
                 IF m.log_filter = "SELECT" THEN MsgArg("ApplyFilter", "NONE")
                 ELSE MsgArg("ApplyFilter", "SELECT")
           [] key.ch = "i" -> select_key(m, "INFO")
           [] key.ch = "w" -> select_key(m, "WARNING")
           [] key.ch = "e" -> select_key(m, "ERROR")
           [] key.ch = "c" -> select_key(m, "CRITICAL")
           [] key.ch = "u" /\ key.ctrl -> Msg("MoveUpPage")
           [] key.ch = "d" /\ key.ctrl -> Msg("MoveDownPage")
           [] key.ch = "d" /\ ~key.ctrl -> select_key(m, "DEBUG")
           [] OTHER -> NoMsg

\* A faulty variant of handle_key: the Search mode branch is missing.
handle_key_no_mode(key, m) == handle_key_normal(m, key)

handle_key(key, m) ==
    IF m.search_mode = "Search" THEN handle_key_search(key) ELSE handle_key_normal(m, key)

(***************************** search stage ********************************)
\* The threshold 0.4 passed to fuzzy_search_threshold, as a ratio.
ThresholdNum == 2
ThresholdDen == 5

\* rust_fuzzy_search::trigrams: the string padded with two spaces in front
\* and one behind, read three characters at a time.
trigrams(cs) ==
    LET it_1 == <<" ", " ">> \o cs \o <<" ">>
        it_2 == <<" ">> \o cs
        it_3 == cs \o <<" ">>
    IN [i \in 1..(Len(cs) + 1) |-> <<it_1[i], it_2[i], it_3[i]>>]

\* rust_fuzzy_search::fuzzy_compare(a, b): the number of a's trigrams that
\* occur in b; the score is this number over the length of a plus one.
fuzzy_acc(a, b) ==
    LET trigrams_a == trigrams(a)
        trigrams_b == trigrams(b)
    IN Cardinality({i \in 1..Len(trigrams_a) :
                       \E j \in 1..Len(trigrams_b) : trigrams_a[i] = trigrams_b[j]})

\* fuzzy_compare(a, b) >= threshold, the filter of fuzzy_search_threshold.
fuzzy_match(a, b) == ThresholdDen * fuzzy_acc(a, b) >= ThresholdNum * (Len(a) + 1)

\* Iterator::rev().collect()
rev(s) == [i \in 1..Len(s) |-> s[Len(s) + 1 - i]]

\* apply_search: whether the search stage ran, and the lines it leaves.
apply_search(m, logs) ==
    IF m.search_input # <<>>
    THEN [searched |-> TRUE,
          logs |-> rev(SelectSeq(logs, LAMBDA l : fuzzy_match(chars(m.search_input), l)))]
    ELSE [searched |-> FALSE, logs |-> logs]

(***************************** window **************************************)
filter_str(f) ==
    CASE f = "INFO" -> <<"I", "N", "F", "O">>
      [] f = "WARNING" -> <<"W", "A", "R", "N", "I", "N", "G">>
      [] f = "ERROR" -> <<"E", "R", "R", "O", "R">>
      [] f = "CRITICAL" -> <<"C", "R", "I", "T", "I", "C", "A", "L">>
      [] f = "DEBUG" -> <<"D", "E", "B", "U", "G">>
      [] f \in {"NONE", "SELECT"} -> <<>>

\* A faulty variant of filter_logs: every line is kept under every filter.
filter_logs_all(m) == lines(m.logs)

\* The filter stage of get_filtered_logs (log_model.rs:211-216).
filter_logs(m) ==
    SelectSeq(lines(m.logs), LAMBDA line : contains(line, filter_str(m.log_filter)))

\* A faulty variant of clamp_offset: no clamp.
clamp_offset_none(m, n) == m.view_offset

\* A faulty variant of clamp_offset: an offset past the start goes back to the newest line.
clamp_offset_zero(m, n) ==
    IF m.view_offset + m.view_height > n THEN 0 ELSE m.view_offset

\* The offset after the clamp of get_filtered_logs (log_model.rs:221-223).
clamp_offset(m, n) ==
    IF m.view_offset + m.view_height > n
    THEN checked_sub_or(n, m.view_height, 0)
    ELSE m.view_offset

\* A faulty variant of get_filtered_logs: the range is computed from the offset as it
\* was before the clamp.
get_filtered_logs_stale(m) ==
    LET logs == SelectSeq(lines(m.logs), LAMBDA line : contains(line, filter_str(m.log_filter)))
        s == apply_search(m, logs)
    IN IF s.searched
       THEN [model |-> m, rows |-> s.logs, start |-> 0, end |-> Len(s.logs),
             panic |-> FALSE]
       ELSE LET off == IF m.view_offset + m.view_height > Len(logs)
                       THEN checked_sub_or(Len(logs), m.view_height, 0)
                       ELSE m.view_offset
                end_idx == checked_sub_or(Len(logs), m.view_offset, m.view_height)
                start_idx == checked_sub_or(end_idx, m.view_height, 0)
                bad == start_idx > end_idx \/ end_idx > Len(logs)
            IN [model |-> [m EXCEPT !.view_offset = off],
                rows |-> IF bad THEN <<>> ELSE SubSeq(logs, start_idx + 1, end_idx),
                start |-> start_idx, end |-> end_idx, panic |-> bad]

\* get_filtered_logs: the model it leaves, the rows it returns and the
\* range start_idx..end_idx it drains from the filtered lines.
get_filtered_logs(m) ==
    LET logs == filter_logs(m)
        s == apply_search(m, logs)
    IN IF s.searched
       THEN [model |-> m, rows |-> s.logs, start |-> 0, end |-> Len(s.logs),
             panic |-> FALSE]
       ELSE LET off == clamp_offset(m, Len(logs))
                end_idx == checked_sub_or(Len(logs), off, m.view_height)
                start_idx == checked_sub_or(end_idx, m.view_height, 0)
                \* Vec::drain panics when start > end or end > len
                bad == start_idx > end_idx \/ end_idx > Len(logs)
            IN [model |-> [m EXCEPT !.view_offset = off],
                rows |-> IF bad THEN <<>> ELSE SubSeq(logs, start_idx + 1, end_idx),
                start |-> start_idx, end |-> end_idx, panic |-> bad]

\* view: sets the height of the log area, then computes the rows.
view(m, height) == get_filtered_logs(set_view_height(m, height))

(***************************** the event loop ******************************)
KeyChars == {"j", "k", "q", "g", "G", "s", "/", "f", "i", "w", "e", "c", "d", "u", "x", EAcute}

\* The keys the input source delivers.
Keys ==
    {KeyChar(c) : c \in KeyChars}
        \cup {KeyCtrl(c) : c \in {"c", "u", "d"}}
        \cup {KeyCode(c) : c \in {"Enter", "Esc", "Backspace", "Left", "Right", "Up", "Down", "Tab"}}

\* The characters that are typed into the query.
TypedChars == {"q", EAcute}

\* Bound on the input: the query is typed from TypedChars, up to MaxQuery
\* characters.
KeyInBounds(m, msg) ==
    msg.type = "AddChar" =>
        msg.arg \in TypedChars /\ Len(chars(m.search_input)) < MaxQuery

NoEvent == [msg |-> "Init", arg |-> "", g |-> FALSE, qlen |-> 0, grew |-> 0]

NoView == [rows |-> <<>>, start |-> 0, end |-> 0, from |-> 0, height |-> 0]

InitOn(f) ==
    /\ file = f
    /\ model = new_model(f)
    /\ pc = "draw"
    /\ shown = NoView
    /\ last = NoEvent

Init == \E n \in InitFiles : InitOn([ok |-> TRUE, text |-> n])

\* terminal.draw(|frame| view(frame, &mut model)) (lib.rs:36)
Draw ==
    /\ pc = "draw"
    /\ \E h \in Heights :
          LET r == view(model, h)
          IN /\ model' = r.model
             /\ shown' = [rows |-> r.rows, start |-> r.start, end |-> r.end,
                          from |-> model.view_offset, height |-> h]
             /\ pc' = IF r.panic THEN "panic" ELSE "event"
    /\ UNCHANGED <<file, last>>

\* A faulty variant of after_update: the loop goes on after Quit.
after_update_goes_on(m) == "draw"

\* The loop's next position after the dispatch loop (lib.rs:34).
after_update(m) == IF m.running = "Done" THEN "done" ELSE "draw"

\* One pass of the loop after the draw, on a key press (lib.rs:38-42):
\* handle_event maps the key and the dispatch loop applies the message.
event_effect(m, key) ==
    LET msg == handle_key(key, m)
    IN IF msg = NoMsg THEN m ELSE update(m, msg)

\* handle_event reads a press of a key of K that has a message, and the
\* dispatch loop applies it.
KeyPressIn(K) ==
    /\ pc = "event"
    /\ \E key \in K :
          LET msg == handle_key(key, model)
          IN /\ msg # NoMsg
             /\ KeyInBounds(model, msg)
             /\ last' = [msg |-> msg.type, arg |-> msg.arg, g |-> model.g_modifier,
                         qlen |-> Len(chars(model.search_input)), grew |-> 0]
             /\ IF update_panics(model, msg)
                THEN /\ pc' = "panic"
                     /\ UNCHANGED model
                ELSE /\ model' = event_effect(model, key)
                     /\ pc' = after_update(model')
    /\ UNCHANGED <<file, shown>>

KeyPress == KeyPressIn(Keys)

\* handle_event returns None: the poll timed out, the event was no key press,
\* or the key has no message (lib.rs:38, log_view.rs:75-82).
Idle ==
    /\ pc = "event"
    /\ last' = [msg |-> "None", arg |-> "", g |-> model.g_modifier,
                qlen |-> Len(chars(model.search_input)), grew |-> 0]
    /\ pc' = "draw"
    /\ UNCHANGED <<model, file, shown>>

Next == Draw \/ KeyPress \/ Idle

Spec == Init /\ [][Next]_vars

(***************************** refresh and the file ************************)
\* The number of lines by which new extends old at its end, 0 when it does not.
appended(old, new) == IF len(new) > len(old) THEN len(new) - len(old) ELSE 0

\* The dispatch loop applies Message::RefreshLogs (log_model.rs:194): the
\* file is read again.
Refresh ==
    /\ pc = "event"
    /\ model' = update_refresh(model, file)
    /\ last' = [msg |-> "RefreshLogs", arg |-> "", g |-> model.g_modifier,
                qlen |-> Len(chars(model.search_input)),
                grew |-> appended(model.logs, read_lines(file))]
    /\ pc' = after_update(model')
    /\ UNCHANGED <<file, shown>>

\* The writer of the log appends the next line.
FileAppend ==
    /\ pc \in {"draw", "event"}
    /\ len(file.text) < MaxLines
    /\ file' = [file EXCEPT !.text = file.text + 1]
    /\ UNCHANGED <<model, pc, shown, last>>

\* The log is rotated: the file starts again empty.
FileTruncate ==
    /\ pc \in {"draw", "event"}
    /\ len(file.text) > 0
    /\ file' = [file EXCEPT !.text = 0]
    /\ UNCHANGED <<model, pc, shown, last>>

\* The file becomes unreadable, or readable again.
FileFail ==
    /\ pc \in {"draw", "event"}
    /\ file' = [file EXCEPT !.ok = ~file.ok]
    /\ UNCHANGED <<model, pc, shown, last>>

\* The keys that leave Normal mode for Search mode are left out.
NavKeys == Keys \ {KeyChar("s"), KeyChar("/")}

Navigate == KeyPressIn(NavKeys)

NextRefresh == Draw \/ Navigate \/ Idle \/ Refresh \/ FileAppend \/ FileTruncate \/ FileFail

\* The event loop with the refresh command delivered and the file changing.
SpecRefresh == Init /\ [][NextRefresh]_vars

(***************************** a long file *********************************)
JumpKeys == {KeyChar("g"), KeyChar("G"), KeyChar("f")}

Jump == KeyPressIn(JumpKeys)

InitLong == InitOn([ok |-> TRUE, text |-> BigFile])

NextLong == Draw \/ Jump \/ Idle

\* The event loop on a file of more than 0xffff lines.
SpecLong == InitLong /\ [][NextLong]_vars

(***************************** an unreadable file **************************)
\* The keys that scroll up, choose the filter INFO, and enter, edit and
\* leave Search mode.
FailKeys ==
    {KeyChar("k"), KeyChar("f"), KeyChar("i"), KeyChar("s"), KeyChar(EAcute),
     KeyCode("Left"), KeyCode("Esc")}

Type == KeyPressIn(FailKeys)

InitFail == InitOn([ok |-> TRUE, text |-> MaxLines])

\* The refresh command, delivered while the offset is within the bound: the
\* draws with a query do not lower the offset, so that refreshes that find
\* the file readable again would raise it without end.
Reload ==
    /\ model.view_offset <= MaxLines
    /\ Refresh

NextFail == Draw \/ Type \/ Idle \/ Reload \/ FileFail

\* The event loop with the refresh command delivered, searching included,
\* while the file becomes unreadable and readable again.
SpecFail == InitFail /\ [][NextFail]_vars

(***************************** the loop goes on ****************************)
NextLive == Draw \/ KeyPress \/ Idle \/ FileAppend

\* The event loop as run executes it, while the log is being written: a
\* draw that is due is made, and handle_event returns within its poll
\* timeout, with a key or without.
SpecLive ==
    /\ Init
    /\ [][NextLive]_vars
    /\ WF_vars(Draw)
    /\ WF_vars(Idle \/ KeyPress)

(***************************** properties **********************************)
\* The filtered sequence the draw works on, and its length.
Filtered == filter_logs(model)
FilteredLen == Len(Filtered)

QueryEmpty == model.search_input = <<>>

\* The state right after a draw with an empty query: shown is the window of
\* the present model.
Drawn == pc = "event" /\ QueryEmpty

\* C1: with an empty query the window that get_filtered_logs returns is a
\* contiguous run of the filtered sequence, in file order, of length exactly
\* min(height, n), and its range satisfies 0 <= start <= end <= n (the drain
\* never panics), whatever the offset and the height were.
C1_WindowIsRun ==
    /\ pc # "panic"
    /\ Drawn =>
          /\ 0 <= shown.start
          /\ shown.start <= shown.end
          /\ shown.end <= FilteredLen
          /\ shown.rows = [i \in 1..(shown.end - shown.start) |-> Filtered[shown.start + i]]
          /\ Len(shown.rows) = Min(shown.height, FilteredLen)

\* C1 witness: a window was drawn from an offset beyond the filtered
\* sequence and with a height beyond it.
C1_Witness ==
    /\ Drawn
    /\ FilteredLen >= 1
    /\ shown.from > FilteredLen
    /\ shown.height > FilteredLen

\* C2: with an empty query, a height of at least 1 and the stored offset
\* below n when the window is cut, the last line of the window is
\* lines[n-1-offset] (counted from 0).
C2_LastLine ==
    (Drawn /\ shown.height >= 1 /\ model.view_offset < FilteredLen) =>
        /\ shown.rows # <<>>
        /\ shown.rows[Len(shown.rows)] = Filtered[FilteredLen - model.view_offset]

\* C2 witness: a window drawn at a nonzero offset that had to be lowered.
C2_Witness ==
    /\ Drawn
    /\ shown.height >= 1
    /\ model.view_offset >= 1
    /\ model.view_offset < FilteredLen
    /\ shown.from > model.view_offset

\* C3: after a draw with an empty query the stored offset is
\* min(offset before, max(n - height, 0)); when offset + height exceeded n
\* the window is the oldest one, lines[0 .. min(height, n)), and otherwise
\* the offset is the one before the draw.
C3_ClampedOffset ==
    Drawn =>
        LET n == FilteredLen
            h == shown.height
            k == shown.from
        IN /\ model.view_offset = Min(k, Max(n - h, 0))
           /\ k + h > n => shown.rows = SubSeq(Filtered, 1, Min(h, n))
           /\ k + h <= n => model.view_offset = k

\* C3 witness: a draw lowered the offset to a value that is not 0.
C3_Witness ==
    /\ Drawn
    /\ shown.height >= 1
    /\ shown.from + shown.height > FilteredLen
    /\ model.view_offset >= 1
    /\ model.view_offset < shown.from

\* A step in which the dispatch loop applies RefreshLogs.
RefreshStep == pc = "event" /\ pc' # "event" /\ last'.msg = "RefreshLogs"

\* C4: refresh_logs changes the offset only by growth compensation: when
\* the line count grows by m > 0 and the offset is k > 0 it becomes k + m;
\* an offset of 0 stays 0; when the line count does not grow the offset is
\* unchanged.
C4_GrowthCompensation ==
    [][RefreshStep =>
          LET k == model.view_offset
              old == len(model.logs)
              new == len(model'.logs)
          IN /\ (new > old /\ k > 0) => model'.view_offset = k + (new - old)
             /\ k = 0 => model'.view_offset = 0
             /\ new <= old => model'.view_offset = k]_vars

\* C4 witness: a refresh found appended lines while the offset was not 0.
C4_Witness ==
    /\ last.msg = "RefreshLogs"
    /\ pc = "draw"
    /\ last.grew >= 1
    /\ model.view_offset > last.grew

\* C5 (as claimed): with an empty query and an offset k > 0 left by the last
\* draw, after a refresh that appends m >= 1 lines the next draw (of the same
\* height) shows exactly the rows shown before, under every filter.
C5_SameWindowAfterAppend ==
    [][(/\ pc = "draw"
        /\ pc' = "event"
        /\ last.msg = "RefreshLogs"
        /\ last.grew >= 1
        /\ model.view_offset > last.grew
        /\ QueryEmpty
        /\ shown'.height = shown.height) => shown'.rows = shown.rows]_vars

\* C6 (as claimed): with an empty query, the draw that follows the completing
\* 'g' shows the oldest window, lines[0 .. min(height, n)), for every n.
C6_JumpShowsOldest ==
    (Drawn /\ last.msg = "MoveTop" /\ last.g) =>
        shown.rows = SubSeq(Filtered, 1, Min(shown.height, FilteredLen))

\* The messages of the commands (an event without a message is "None").
IsCommand(t) == t \notin {"Init", "None"}

\* C7 (as claimed): after a command that was processed while the pending
\* modifier was set, the pending modifier is not set.
C7_ModifierReset == (IsCommand(last.msg) /\ last.g) => ~model.g_modifier

\* C8 (as claimed): in Normal mode with the modifier pending, every key but
\* 'g' leaves the modifier unset, does not store the jump-to-top offset and
\* otherwise acts as it does without the modifier; and a 'g' pressed after
\* it only sets the modifier.
C8_OtherKeyResets ==
    (pc = "event" /\ model.search_mode = "None" /\ model.g_modifier) =>
        \A key \in Keys \ {KeyChar("g")} :
            LET after == event_effect(model, key)
                plain == event_effect([model EXCEPT !.g_modifier = FALSE], key)
                later == event_effect(after, KeyChar("g"))
            IN /\ ~after.g_modifier
               /\ after.view_offset # TopSentinel
               /\ after = plain
               /\ (after.search_mode = "None" /\ after.running = "Running") =>
                      later = [after EXCEPT !.g_modifier = TRUE]

\* The messages that handle_key may produce in Search mode.
SearchMessages ==
    {"ToggleSearch", "AddChar", "Delete", "MoveCursorLeft", "MoveCursorRight", "None"}

\* C9: in Search mode every key yields ToggleSearch, AddChar, Delete,
\* MoveCursorLeft, MoveCursorRight or no message, and handling it leaves the
\* offset, the filter, the line store, the pending modifier and the running
\* flag as they were.
C9_SearchKeysOnlyEdit ==
    (pc = "event" /\ model.search_mode = "Search") =>
        \A key \in Keys :
            LET after == event_effect(model, key)
            IN /\ handle_key(key, model).type \in SearchMessages
               /\ after.view_offset = model.view_offset
               /\ after.log_filter = model.log_filter
               /\ after.logs = model.logs
               /\ after.g_modifier = model.g_modifier
               /\ after.running = model.running

\* C9 witness: 'q' was typed in Search mode at a scrolled view with a
\* category filter, and the viewer awaits the next key.
C9_Witness ==
    /\ pc = "event"
    /\ model.search_mode = "Search"
    /\ last.msg = "AddChar"
    /\ last.arg = "q"
    /\ model.view_offset >= 1
    /\ model.log_filter = "INFO"

\* C10: Search mode is entered with an empty query and the cursor at 0, and
\* ToggleSearch in Search mode, after any editing, leaves SearchMode None,
\* an empty query and the cursor at 0.
C10_SearchRoundTrip ==
    /\ (model.search_mode = "None" \/ last.msg = "ToggleSearch") =>
           (model.search_input = <<>> /\ model.cursor_pos = 0)
    /\ (last.msg = "ToggleSearch" /\ last.qlen >= 1) => model.search_mode = "None"

\* C10 witness: Search mode was left with a query of MaxQuery characters.
C10_Witness ==
    /\ last.msg = "ToggleSearch"
    /\ last.qlen = MaxQuery
    /\ model.search_mode = "None"

\* C11: in every reachable state the cursor index is at least 0 and at most
\* the number of characters (not bytes) of the query, after any sequence of
\* AddChar, Delete, MoveCursorLeft, MoveCursorRight and ToggleSearch, with
\* multi-byte characters in the query; no edit panics.
C11_CursorInRange ==
    /\ pc # "panic"
    /\ 0 <= model.cursor_pos
    /\ model.cursor_pos <= Len(chars(model.search_input))

\* C11 witness: the cursor was moved right at the end of a query of MaxQuery
\* characters that has more bytes than characters.
C11_Witness ==
    /\ last.msg = "MoveCursorRight"
    /\ last.qlen = MaxQuery
    /\ model.cursor_pos = MaxQuery
    /\ Len(model.search_input) > MaxQuery

\* The category that each category key selects.
CategoryKeys == {"i", "w", "e", "c", "d"}
CategoryOf(c) ==
    CASE c = "i" -> "INFO"
      [] c = "w" -> "WARNING"
      [] c = "e" -> "ERROR"
      [] c = "c" -> "CRITICAL"
      [] c = "d" -> "DEBUG"

\* C12: in Normal mode a category key (i, w, e, c, d) changes nothing in the
\* model unless the filter is SELECT; under SELECT it sets the filter to its
\* category, which is not SELECT, and the offset to 0. The draw position
\* reached by an ApplyFilter of a category holds that category and offset 0.
C12_CategoryKeys ==
    /\ (pc = "event" /\ model.search_mode = "None") =>
           \A c \in CategoryKeys :
               LET after == event_effect(model, KeyChar(c))
               IN IF model.log_filter = "SELECT"
                  THEN /\ after.log_filter = CategoryOf(c)
                       /\ after.log_filter # "SELECT"
                       /\ after.view_offset = 0
                  ELSE after = model
    /\ (pc = "draw" /\ last.msg = "ApplyFilter" /\ last.arg \notin {"NONE", "SELECT"}) =>
           (model.log_filter = last.arg /\ model.view_offset = 0)

\* C12 witness: under SELECT, with a window drawn above the newest line, the
\* key 'e' was pressed: the filter is ERROR and the offset is 0.
C12_Witness ==
    /\ pc = "draw"
    /\ last.msg = "ApplyFilter"
    /\ last.arg = "ERROR"
    /\ shown.end < len(model.logs)
    /\ shown.height >= 1
    /\ model.log_filter = "ERROR"
    /\ model.view_offset = 0

\* The keyword of a category, and its occurrence in a line with the case of
\* every letter as written.
Keyword(f) ==
    CASE f = "INFO" -> <<"I", "N", "F", "O">>
      [] f = "WARNING" -> <<"W", "A", "R", "N", "I", "N", "G">>
      [] f = "ERROR" -> <<"E", "R", "R", "O", "R">>
      [] f = "CRITICAL" -> <<"C", "R", "I", "T", "I", "C", "A", "L">>
      [] f = "DEBUG" -> <<"D", "E", "B", "U", "G">>
HasKeyword(line, f) ==
    \E i \in 1..Len(line) :
        \A j \in 1..Len(Keyword(f)) :
            i + j - 1 <= Len(line) /\ line[i + j - 1] = Keyword(f)[j]

\* The positions of the line store that the filter keeps.
Kept ==
    IF model.log_filter \in {"NONE", "SELECT"}
    THEN 1..len(model.logs)
    ELSE {i \in 1..len(model.logs) : HasKeyword(LogLine(i), model.log_filter)}

\* rows holds the lines at the positions Kept, each once per position, in
\* the order of the positions.
IsSelection(rows) ==
    /\ Len(rows) = Cardinality(Kept)
    /\ \A i \in Kept : rows[Cardinality({j \in Kept : j <= i})] = LogLine(i)

\* C13: the filter stage is an order-preserving selection without
\* deduplication: under NONE and SELECT it keeps every line, under a category
\* exactly the lines that contain the keyword, case-sensitively; and a draw
\* at offset 0 with an empty query and a height of at least the number of
\* matches shows exactly the matching lines in file order.
C13_FilterSelects ==
    /\ IsSelection(Filtered)
    /\ (Drawn /\ shown.from = 0 /\ shown.height >= Cardinality(Kept)) =>
           IsSelection(shown.rows)

\* C13 witness: a file of 4 lines drawn under the filter ERROR at offset 0
\* with room for 2 rows: the one matching line, which has 'info' in lower
\* case, is shown.
C13_Witness ==
    /\ Drawn
    /\ model.log_filter = "ERROR"
    /\ len(model.logs) = 4
    /\ shown.from = 0
    /\ shown.height >= 2
    /\ shown.rows = <<LineError>>

\* The state right after a draw with a query: shown is the search result of
\* the present model.
Searched == pc = "event" /\ ~QueryEmpty

\* The query as characters, and the filtered lines that pass the threshold.
Query == chars(model.search_input)
Passing == SelectSeq(Filtered, LAMBDA l : fuzzy_match(Query, l))

\* The number of times x occurs in s; a and b hold the same lines, each as
\* often in a as in b.
Count(s, x) == Cardinality({i \in 1..Len(s) : s[i] = x})
SameLines(a, b) ==
    /\ Len(a) = Len(b)
    /\ \A i \in 1..Len(a) : Count(a, a[i]) = Count(b, a[i])

\* The rows of a draw with a query are every passing line and no other,
\* whatever the height and the offset are.
C14_AllMatches ==
    Searched =>
        /\ SameLines(shown.rows, Passing)
        /\ \A h \in Heights : view(model, h).rows = shown.rows
        /\ \A k \in 0..(MaxLines + 1) :
               view([model EXCEPT !.view_offset = k], shown.height).rows = shown.rows

\* The rows of a draw with a query are in reversed rank order: no row has a
\* higher score than a row below it (for one query the score of a line is
\* fuzzy_acc over a fixed length).
C14_BestMatchLast ==
    Searched =>
        \A i, j \in 1..Len(shown.rows) :
            i < j => fuzzy_acc(Query, shown.rows[i]) <= fuzzy_acc(Query, shown.rows[j])

\* With an empty query the rows are the filtered lines cut to the window.
C14_EmptyQueryCrop ==
    Drawn =>
        /\ shown.rows = SubSeq(Filtered, shown.start + 1, shown.end)
        /\ Len(shown.rows) = Min(shown.height, FilteredLen)

\* C14 (as claimed): with a query, get_filtered_logs returns every line of
\* the filtered sequence that passes the fuzzy threshold and no other, in
\* reversed rank order (best match last), not cut to the height and
\* independent of the offset; with an empty query the filtered sequence is
\* passed on and cut to the window.
C14_SearchResult == C14_AllMatches /\ C14_BestMatchLast /\ C14_EmptyQueryCrop

\* C15 (as claimed): after every draw in which the search stage is active
\* (the query is not empty), the stored offset is at most the number of
\* matching lines.
C15_SearchClampsOffset == Searched => model.view_offset <= Len(shown.rows)

\* C16: running changes from Running to Done only by Quit, the message of
\* 'q' in Normal mode: no other key (and no refresh) changes it; Done is
\* never left; and once it is Done the loop is over: nothing is drawn and no
\* event is processed.
C16_QuitOnly ==
    /\ [](model.running = "Done" <=> pc = "done")
    /\ [](pc = "event" =>
            /\ \A key \in Keys :
                  event_effect(model, key).running = "Done"
                      <=> (model.search_mode = "None" /\ key.code = "Char" /\ key.ch = "q")
            /\ \A ok \in BOOLEAN, n \in 0..MaxLines :
                  update_refresh(model, [ok |-> ok, text |-> n]).running = model.running)
    /\ [][/\ model'.running # model.running => last'.msg = "Quit"
          /\ model.running # "Done"
          /\ pc # "done"]_vars

\* C16 witness: after a window with rows was drawn, Quit ended the loop.
C16_Witness ==
    /\ pc = "done"
    /\ model.running = "Done"
    /\ last.msg = "Quit"
    /\ shown.height >= 1
    /\ shown.rows # <<>>

\* C17: a refresh whose read fails empties the line store and reports no
\* error: running stays Running and the loop goes on to draw; the filter, the
\* search mode, the query, the cursor and the offset are as before the
\* refresh; the draw that follows shows no line; and a refresh whose read
\* succeeds loads the lines of the file.
C17_FailedRead ==
    /\ [][(RefreshStep /\ ~file.ok) =>
             /\ len(model'.logs) = 0
             /\ model'.running = "Running"
             /\ pc' = "draw"
             /\ model'.log_filter = model.log_filter
             /\ model'.search_mode = model.search_mode
             /\ model'.search_input = model.search_input
             /\ model'.cursor_pos = model.cursor_pos
             /\ model'.view_offset = model.view_offset]_vars
    /\ [][(RefreshStep /\ file.ok) => lines(model'.logs) = lines(file.text)]_vars
    /\ []((pc = "event" /\ last.msg = "RefreshLogs" /\ len(model.logs) = 0) =>
             shown.rows = <<>>)

\* C17 witness: in Search mode with a query, under the filter INFO and at a
\* scrolled offset, a refresh failed to read the file and the draw after it
\* showed no line.
C17_Witness ==
    /\ pc = "event"
    /\ last.msg = "RefreshLogs"
    /\ ~file.ok
    /\ len(model.logs) = 0
    /\ model.search_mode = "Search"
    /\ ~QueryEmpty
    /\ model.log_filter = "INFO"
    /\ model.view_offset >= 1
    /\ shown.rows = <<>>

\* The view is pinned to the newest line: the viewer is running with offset
\* 0, the filter NONE and an empty query.
Pinned ==
    /\ model.running = "Running"
    /\ model.view_offset = 0
    /\ model.log_filter = "NONE"
    /\ QueryEmpty

\* C18 (as claimed): while the viewer is running the line store is read
\* again after startup, so that with offset 0, the filter NONE and an empty
\* query the line that ends the file eventually is the last line of the
\* window drawn (unless the view is moved from there or the file grows on).
C18_AppendedLineShown ==
    \A n \in 1..MaxLines :
        (len(file.text) = n /\ Pinned)
            ~> \/ ~Pinned
               \/ len(file.text) # n
               \/ /\ Drawn
                  /\ shown.height >= 1 =>
                         (shown.rows # <<>> /\ shown.rows[Len(shown.rows)] = LogLine(n))

\* C19: editing works on character positions. In Search mode with the cursor
\* at character index p of a query of c characters: AddChar(x) gives the
\* query with x at character index p and the cursor p + 1; Delete with p > 0
\* removes the character at index p - 1 and gives the cursor p - 1; Delete
\* with p = 0 changes nothing; MoveCursorLeft and MoveCursorRight change the
\* cursor only, to max(p - 1, 0) and min(p + 1, c).
C19_CharacterEditing ==
    (pc = "event" /\ model.search_mode = "Search") =>
        LET q == Query
            p == model.cursor_pos
            c == Len(q)
            added(x) == event_effect(model, KeyChar(x))
            deleted == event_effect(model, KeyCode("Backspace"))
            left == event_effect(model, KeyCode("Left"))
            right == event_effect(model, KeyCode("Right"))
        IN /\ \A x \in TypedChars :
                 LET text == SubSeq(q, 1, p) \o <<x>> \o SubSeq(q, p + 1, c)
                 IN added(x) = [model EXCEPT !.search_input = collect(text),
                                             !.cursor_pos = p + 1]
           /\ p > 0 =>
                 LET text == SubSeq(q, 1, p - 1) \o SubSeq(q, p + 1, c)
                 IN deleted = [model EXCEPT !.search_input = collect(text),
                                            !.cursor_pos = p - 1]
           /\ p = 0 => deleted = model
           /\ left = [model EXCEPT !.cursor_pos = Max(p - 1, 0)]
           /\ right = [model EXCEPT !.cursor_pos = Min(p + 1, c)]

\* C19 witness: 'q' was typed with the cursor in front of the two-byte
\* character of the query, and the cursor is between the two characters.
C19_Witness ==
    /\ pc = "event"
    /\ last.msg = "AddChar"
    /\ last.arg = "q"
    /\ Query = <<"q", EAcute>>
    /\ model.cursor_pos = 1

\* A draw of the same height as the last one, in Normal mode with an empty
\* query and more filtered lines than rows, after the key of message t was
\* handled while the oldest window was shown.
DrawAtOldestAfter(t) ==
    /\ pc = "draw"
    /\ pc' = "event"
    /\ last.msg = t
    /\ model.search_mode = "None"
    /\ QueryEmpty
    /\ shown.start = 0
    /\ shown.end = shown.height
    /\ shown'.height = shown.height
    /\ FilteredLen > shown.height

\* C20: every pass of the loop draws, and so clamps the offset, before it
\* handles one key, so scrolling up at the oldest window stores no hidden
\* offset: a MoveUp at the oldest window leaves, after the next draw, the
\* offset n - height of the oldest window; a MoveDown at the oldest window
\* makes the next draw show the window one line newer; and MoveDown at
\* offset 0 leaves the offset 0.
C20_NoHiddenOffset ==
    /\ [][DrawAtOldestAfter("MoveUp") =>
             /\ model'.view_offset = FilteredLen - shown.height
             /\ shown'.rows = shown.rows]_vars
    /\ [][DrawAtOldestAfter("MoveDown") =>
             /\ model'.view_offset = FilteredLen - shown.height - 1
             /\ shown'.rows = SubSeq(Filtered, 2, shown.height + 1)]_vars
    /\ [][(pc = "event" /\ last'.msg = "MoveDown" /\ model.view_offset = 0) =>
             model'.view_offset = 0]_vars

\* C20 witness: the oldest window of two rows was shown, MoveDown was
\* handled, and the draw after it shows the window one line newer.
C20_Witness ==
    /\ Drawn
    /\ last.msg = "MoveDown"
    /\ model.search_mode = "None"
    /\ shown.height = 2
    /\ FilteredLen = 4
    /\ shown.start = 1
    /\ shown.from = 1
    /\ shown.rows = SubSeq(Filtered, 2, 3)

=============================================================================
